---- MODULE Spec2Model ----
(***************************************************************************)
(* flask_cqlalchemy: the CQLAlchemy connection manager                     *)
(* (src/flask_cqlalchemy/__init__.py) as a state machine.                  *)
(*                                                                         *)
(* One process, one CQLAlchemy object.  The state is the object's fields,  *)
(* the receivers it registered with uWSGI and Celery, the names `cluster`  *)
(* and `session` bound by the from-import at line 13, and the driver's     *)
(* process-wide state as far as the manager drives it: the driver          *)
(* module's current cluster/session, which clients and sessions are still  *)
(* open, and models.DEFAULT_KEYSPACE.                                      *)
(*                                                                         *)
(* Python values are modelled as strings: "None", "MISSING" (a key absent  *)
(* from app.config), "UNSET" (an attribute never assigned), "[]" and       *)
(* "[h1]" (host lists), "" and "ks1"/"ks2" (keyspace names).  Driver       *)
(* clients and sessions are numbered 1, 2, ...; 0 stands for None.         *)
(***************************************************************************)
EXTENDS Integers, Sequences, FiniteSets, TLC

\* ---------------------------------------------------------------- bounds
\* most driver handles opened in one run
MaxHandles == 3
\* most successful passes through the hook registration of init_app
MaxBinds == 2
\* most classes defined below models.Model
MaxClasses == 3

\* ------------------------------------------------------- program constants
\* default of app.config.get('CASSANDRA_CONSISTENCY', 1)
DefaultConsistency == "1"
\* default of app.config.get('CASSANDRA_LAZY_CONNECT', False)
DefaultLazyConnect == "False"
\* default of app.config.get('CASSANDRA_RETRY_CONNECT', False)
DefaultRetryConnect == "False"
\* default of app.config.get('CASSANDRA_SETUP_KWARGS', {})
DefaultSetupKwargs == "{}"

\* ------------------------------------------------------------------ state
VARIABLES
    \* the CQLAlchemy object
    held,                 \* the caller holds a constructed manager
    constructed,          \* CQLAlchemy(...) has been called
    bound,                \* some call of init_app has returned without raising
    pinned,               \* the k of the latest set_keyspace(k), k non-empty, while no
                          \* set_keyspace and no bind has been called since; else ""
    app,                  \* self.app, as its config['CASSANDRA_KEYSPACE']; NoApp for None
    _hosts_,              \* self._hosts_
    _keyspace_,           \* self._keyspace_
    _consistency,         \* self._consistency
    _lazy_connect,        \* self._lazy_connect
    _retry_connect,       \* self._retry_connect
    _setup_kwargs,        \* self._setup_kwargs
    \* receivers registered by init_app
    postfork,             \* number of cassandra_init_uwsgi registered with uwsgidecorators.postfork
    worker_process_init,  \* receivers of celery.signals.worker_process_init
    beat_init,            \* receivers of celery.signals.beat_init
    worker_shutting_down, \* receivers of celery.signals.worker_shutting_down
    \* the module's own names, bound once by line 13
    cluster,              \* flask_cqlalchemy.cluster
    session,              \* flask_cqlalchemy.session
    \* the environment
    uwsgi_present,        \* `from uwsgidecorators import postfork` succeeds
    celery_present,       \* `from celery.signals import ...` succeeds
    shutdown_raises,      \* the driver's shutdown() calls raise in this process
    \* the driver, process-wide
    drv_cluster,          \* cassandra.cqlengine.connection.cluster now
    drv_session,          \* cassandra.cqlengine.connection.session now
    live_clusters,        \* clients opened and not shut down
    live_sessions,        \* sessions opened and not shut down
    next_id,              \* number of the next handle the driver opens
    DEFAULT_KEYSPACE,     \* cassandra.cqlengine.models.DEFAULT_KEYSPACE
    \* the class hierarchy below models.Model
    classes,              \* classes[i]: [abstract, parents] of class i; parent 0 is models.Model
    \* what the last operation did
    op,                   \* the operation and how it was called
    err,                  \* "ok" or the exception that reached the caller
    calls,                \* the driver calls the operation made, in order
    raised,               \* the driver calls among them that raised, in order
    setup_args,           \* the arguments of its latest connection.setup call
    synced,               \* the classes the operation passed to sync_table, in order
    before                \* the open clients and sessions when the operation started

vars == <<held, constructed, bound, pinned, app, _hosts_, _keyspace_, _consistency,
          _lazy_connect, _retry_connect, _setup_kwargs,
          postfork, worker_process_init, beat_init, worker_shutting_down,
          cluster, session, uwsgi_present, celery_present, shutdown_raises,
          drv_cluster, drv_session, live_clusters, live_sessions, next_id,
          DEFAULT_KEYSPACE, setup_args, classes, op, err, calls, raised, synced, before>>

\* ------------------------------------------------------------ Python values
None == 0

\* `not v` is true of these values
Falsy(v) == v \in {"", "[]", "None"}

\* app.config.get(key) without the default of lines 46-49
ConfigGet_nodefault(v, default) == IF v = "MISSING" THEN "None" ELSE v

\* app.config.get(key, default)
ConfigGet(v, default) == IF v = "MISSING" THEN default ELSE v

\* the app configurations a caller may pass to bind
Configs ==
    [hosts : {"MISSING", "[]", "[h1]"},
     keyspace : {"MISSING", "", "ks1", "ks2"},
     consistency : {"MISSING"},
     lazy_connect : {"MISSING"},
     retry_connect : {"MISSING"},
     setup_kwargs : {"MISSING"}]
    \cup
    [hosts : {"MISSING", "[]", "[h1]"},
     keyspace : {"MISSING", "", "ks1", "ks2"},
     consistency : {"2"},
     lazy_connect : {"True"},
     retry_connect : {"True"},
     setup_kwargs : {"{port}"}]

\* CQLAlchemy() called without an app: self.app is None
NoApp == "NOAPP"

\* the app argument of __init__: an app with one of the configurations, or None
NoConfigs == [hosts |-> "None", keyspace |-> "None", consistency |-> "None",
              lazy_connect |-> "None", retry_connect |-> "None",
              setup_kwargs |-> "None"]

\* the operation made no connection.setup call
NoArgs == [hosts |-> "UNSET", keyspace |-> "UNSET", consistency |-> "UNSET",
           lazy_connect |-> "UNSET", retry_connect |-> "UNSET",
           setup_kwargs |-> "UNSET"]

\* the names set_keyspace may be called with ("" for no argument)
KeyspaceNames == {"", "ks1", "ks2"}

\* --------------------------------------------------- the state as a record
\* The part of the state a method can change, as one value, so that the
\* methods compose the way the calls in the source do.
Cur ==
    [app |-> app, _hosts_ |-> _hosts_, _keyspace_ |-> _keyspace_,
     _consistency |-> _consistency, _lazy_connect |-> _lazy_connect,
     _retry_connect |-> _retry_connect, _setup_kwargs |-> _setup_kwargs,
     postfork |-> postfork, worker_process_init |-> worker_process_init,
     beat_init |-> beat_init, worker_shutting_down |-> worker_shutting_down,
     drv_cluster |-> drv_cluster, drv_session |-> drv_session,
     live_clusters |-> live_clusters, live_sessions |-> live_sessions,
     next_id |-> next_id, DEFAULT_KEYSPACE |-> DEFAULT_KEYSPACE,
     setup_args |-> NoArgs, err |-> "ok", calls |-> <<>>, raised |-> <<>>,
     synced |-> <<>>]

Install(S) ==
    /\ app' = S.app
    /\ _hosts_' = S._hosts_
    /\ _keyspace_' = S._keyspace_
    /\ _consistency' = S._consistency
    /\ _lazy_connect' = S._lazy_connect
    /\ _retry_connect' = S._retry_connect
    /\ _setup_kwargs' = S._setup_kwargs
    /\ postfork' = S.postfork
    /\ worker_process_init' = S.worker_process_init
    /\ beat_init' = S.beat_init
    /\ worker_shutting_down' = S.worker_shutting_down
    /\ drv_cluster' = S.drv_cluster
    /\ drv_session' = S.drv_session
    /\ live_clusters' = S.live_clusters
    /\ live_sessions' = S.live_sessions
    /\ next_id' = S.next_id
    /\ DEFAULT_KEYSPACE' = S.DEFAULT_KEYSPACE
    /\ setup_args' = S.setup_args
    /\ err' = S.err
    /\ calls' = S.calls
    /\ raised' = S.raised
    /\ synced' = S.synced
    /\ before' = [clusters |-> live_clusters, sessions |-> live_sessions]

\* raise e: the first exception is the one that reaches the caller
Raise(S, e) == [S EXCEPT !.err = e]

\* ------------------------------------------------------------- the driver
\* the driver call `call`, the latest of S.calls, raises
DriverRaise(S, call) ==
    Raise([S EXCEPT !.raised = Append(@, call)], "DriverError")

\* Cluster.shutdown(): closes the client; a closed client stays closed.
\* When the driver's shutdown raises, the client is not closed.
ClusterShutdown(S, c) ==
    LET S1 == [S EXCEPT !.calls = Append(@, "cluster.shutdown")]
    IN  IF shutdown_raises THEN DriverRaise(S1, "cluster.shutdown")
        ELSE [S1 EXCEPT !.live_clusters = @ \ {c}]

\* Session.shutdown(): closes the session; a closed session stays closed.
\* When the driver's shutdown raises, the session is not closed.
SessionShutdown(S, s) ==
    LET S1 == [S EXCEPT !.calls = Append(@, "session.shutdown")]
    IN  IF shutdown_raises THEN DriverRaise(S1, "session.shutdown")
        ELSE [S1 EXCEPT !.live_sessions = @ \ {s}]

\* connection.setup(hosts, keyspace, consistency=, lazy_connect=,
\* retry_connect=, **kwargs): sets the default keyspace, opens a new client
\* and session and makes them the driver's current ones; it does not close
\* the ones it replaces.  `ok` is whether the cluster could be reached;
\* without a contact point it cannot be.
ConnectionSetup(S, args, ok) ==
    LET S1 == [S EXCEPT !.calls = Append(@, "connection.setup"),
                        !.setup_args = args,
                        !.DEFAULT_KEYSPACE = args.keyspace]
    IN  IF ok /\ ~Falsy(args.hosts)
        THEN [S1 EXCEPT !.drv_cluster = S.next_id,
                        !.drv_session = S.next_id,
                        !.live_clusters = @ \cup {S.next_id},
                        !.live_sessions = @ \cup {S.next_id},
                        !.next_id = @ + 1]
        ELSE DriverRaise(S1, "connection.setup")

\* ------------------------------------------------------------- CQLAlchemy
\* shutdown_connection without the `is not None` tests of lines 86 and 88:
\* None has no shutdown()
shutdown_connection_unguarded(S) ==
    IF cluster = None \/ session = None THEN Raise(S, "AttributeError")
    ELSE SessionShutdown(ClusterShutdown(S, cluster), session)

\* shutdown_connection, lines 85-89: `cluster` and `session` are the
\* module's own names, bound by the from-import at line 13
shutdown_connection(S) ==
    LET S1 == IF cluster # None THEN ClusterShutdown(S, cluster) ELSE S
    IN  IF S1.err # "ok" THEN S1
        ELSE IF session # None THEN SessionShutdown(S1, session) ELSE S1

\* setup_connection with line 93 wrapped in `try: ... except Exception:
\* pass`: a failure of the driver's connect is swallowed
setup_connection_swallowing(S, ok) ==
    LET S1 == shutdown_connection(S)
        args == [hosts |-> S1._hosts_, keyspace |-> S1._keyspace_,
                 consistency |-> S1._consistency,
                 lazy_connect |-> S1._lazy_connect,
                 retry_connect |-> S1._retry_connect,
                 setup_kwargs |-> S1._setup_kwargs]
        S2 == ConnectionSetup(S1, args, ok)
    IN  IF S1.err # "ok" THEN S1
        ELSE IF \E f \in DOMAIN args : args[f] = "UNSET"
        THEN Raise(S1, "AttributeError")
        ELSE IF S2.err = "ok" THEN S2 ELSE [S2 EXCEPT !.err = "ok"]

\* setup_connection, lines 91-98; reading a field that init_app never
\* assigned is an AttributeError
setup_connection(S, ok) ==
    LET S1 == shutdown_connection(S)
        args == [hosts |-> S1._hosts_, keyspace |-> S1._keyspace_,
                 consistency |-> S1._consistency,
                 lazy_connect |-> S1._lazy_connect,
                 retry_connect |-> S1._retry_connect,
                 setup_kwargs |-> S1._setup_kwargs]
    IN  IF S1.err # "ok" THEN S1
        ELSE IF \E f \in DOMAIN args : args[f] = "UNSET"
        THEN Raise(S1, "AttributeError")
        ELSE ConnectionSetup(S1, args, ok)

\* the validation at lines 51-54
ConfigRejected(hosts, keyspace) == Falsy(hosts) /\ ~Falsy(keyspace)

\* lines 56-63 without the `except ImportError` of line 58: a missing uWSGI
\* ends init_app
RegisterUwsgi_required(S) ==
    IF uwsgi_present THEN [S EXCEPT !.postfork = @ + 1]
    ELSE Raise(S, "ImportError")

\* lines 56-63: register cassandra_init_uwsgi when uWSGI is installed
RegisterUwsgi(S) ==
    IF uwsgi_present THEN [S EXCEPT !.postfork = @ + 1] ELSE S

\* lines 65-80: connect the three Celery receivers when Celery is installed
RegisterCelery(S) ==
    IF celery_present
    THEN [S EXCEPT !.worker_process_init = @ + 1,
                   !.worker_shutting_down = @ + 1,
                   !.beat_init = @ + 1]
    ELSE S

\* init_app, lines 38-83
init_app(S, cfg, ok) ==
    IF cfg.hosts = "MISSING" THEN Raise(S, "KeyError")
    ELSE LET S1 == [S EXCEPT !._hosts_ = cfg.hosts]
    IN  IF cfg.keyspace = "MISSING" THEN Raise(S1, "KeyError")
    ELSE LET S2 == [S1 EXCEPT
                    !._keyspace_ = cfg.keyspace,
                    !._consistency = ConfigGet(cfg.consistency, DefaultConsistency),
                    !._lazy_connect = ConfigGet(cfg.lazy_connect, DefaultLazyConnect),
                    !._retry_connect = ConfigGet(cfg.retry_connect, DefaultRetryConnect),
                    !._setup_kwargs = ConfigGet(cfg.setup_kwargs, DefaultSetupKwargs)]
    IN  IF ConfigRejected(S2._hosts_, S2._keyspace_) THEN Raise(S2, "NoConfig")
    ELSE setup_connection(RegisterCelery(RegisterUwsgi(S2)), ok)

\* __init__, lines 26-36: a is the config of the app, NoConfigs for app=None
__init__(S, a, ok) ==
    LET S1 == [S EXCEPT !.app = IF a = NoConfigs THEN NoApp ELSE a.keyspace]
    IN  IF a # NoConfigs THEN init_app(S1, a, ok) ELSE S1

\* set_keyspace followed by self.setup_connection(): the switch of the
\* keyspace reconnects
set_keyspace_reconnecting(S, keyspace_name) ==
    IF Falsy(keyspace_name) /\ S.app = NoApp THEN Raise(S, "AttributeError")
    ELSE IF Falsy(keyspace_name) /\ S.app = "MISSING" THEN Raise(S, "KeyError")
    ELSE LET name == IF Falsy(keyspace_name) THEN S.app ELSE keyspace_name
         IN  setup_connection([S EXCEPT !.DEFAULT_KEYSPACE = name,
                                        !._keyspace_ = name], TRUE)

\* set_keyspace without line 117: the manager does not remember the name
set_keyspace_forgetful(S, keyspace_name) ==
    IF Falsy(keyspace_name) /\ S.app = NoApp THEN Raise(S, "AttributeError")
    ELSE IF Falsy(keyspace_name) /\ S.app = "MISSING" THEN Raise(S, "KeyError")
    ELSE LET name == IF Falsy(keyspace_name) THEN S.app ELSE keyspace_name
         IN  [S EXCEPT !.DEFAULT_KEYSPACE = name]

\* set_keyspace, lines 108-117
set_keyspace(S, keyspace_name) ==
    IF Falsy(keyspace_name) /\ S.app = NoApp THEN Raise(S, "AttributeError")
    ELSE IF Falsy(keyspace_name) /\ S.app = "MISSING" THEN Raise(S, "KeyError")
    ELSE LET name == IF Falsy(keyspace_name) THEN S.app ELSE keyspace_name
         IN  [S EXCEPT !.DEFAULT_KEYSPACE = name, !._keyspace_ = name]

\* ------------------------------------------------- subclass discovery
\* models.Model is class 0 and is abstract
Model == 0

\* cls.__abstract__
IsAbstract(C, c) == IF c = Model THEN TRUE ELSE C[c].abstract

\* cls.__subclasses__(): the direct subclasses, in definition order
RECURSIVE SubclassesFrom(_, _, _)
SubclassesFrom(C, c, j) ==
    IF j > Len(C) THEN <<>>
    ELSE (IF c \in C[j].parents THEN <<j>> ELSE <<>>) \o SubclassesFrom(C, c, j + 1)

Subclasses(C, c) == SubclassesFrom(C, c, 1)

\* flatten, lines 126-128
RECURSIVE flatten(_)
flatten(lists) ==
    IF lists = <<>> THEN <<>> ELSE Head(lists) \o flatten(Tail(lists))

\* get_subclasses, lines 131-136
RECURSIVE get_subclasses(_, _)
get_subclasses(C, c) ==
    IF IsAbstract(C, c)
    THEN LET subs == Subclasses(C, c)
         IN  flatten([i \in 1..Len(subs) |-> get_subclasses(C, subs[i])])
    ELSE <<c>>

\* sync_table(model) of the driver; `ok` is whether the driver could sync
SyncTable(S, model, ok) ==
    LET S1 == [S EXCEPT !.calls = Append(@, "sync_table"),
                        !.synced = Append(@, model)]
    IN  IF ok THEN S1 ELSE DriverRaise(S1, "sync_table")

\* the loop of sync_db, lines 105-106, from the i-th model on; the driver
\* fails on the failAt-th model, if there is one
RECURSIVE SyncLoop(_, _, _, _)
SyncLoop(S, models, i, failAt) ==
    IF i > Len(models) \/ S.err # "ok" THEN S
    ELSE SyncLoop(SyncTable(S, models[i], i # failAt), models, i + 1, failAt)

\* sync_db, lines 100-106
sync_db(S, C, failAt) == SyncLoop(S, get_subclasses(C, Model), 1, failAt)

\* ------------------------------------------------------- lifecycle events
\* The host framework calls the n receivers registered for an event, in
\* order of registration; an exception of a receiver ends the event.  The
\* driver fails in the failAt-th receiver, if there is one.
RECURSIVE RunInit(_, _, _, _)
RunInit(S, n, i, failAt) ==
    IF i > n \/ S.err # "ok" THEN S
    ELSE RunInit(setup_connection(S, i # failAt), n, i + 1, failAt)

\* cassandra_shutdown_celery, lines 75-76, once per registered receiver
RECURSIVE RunShutdown(_, _, _)
RunShutdown(S, n, i) ==
    IF i > n \/ S.err # "ok" THEN S
    ELSE RunShutdown(shutdown_connection(S), n, i + 1)

\* ----------------------------------------------------------------- Init
\* one concrete model M directly below models.Model
OneModel == << [abstract |-> FALSE, parents |-> {0}] >>

\* What the driver holds when flask_cqlalchemy is imported: nothing, a
\* client whose session was never opened, or a client and a session opened
\* by the program before the import.
ImportTimeDriver == { <<0, 0>>, <<1, 0>>, <<1, 1>> }

InitWith(C) ==
    /\ held = FALSE
    /\ constructed = FALSE
    /\ bound = FALSE
    /\ pinned = ""
    /\ app = NoApp
    /\ _hosts_ = "UNSET"
    /\ _keyspace_ = "UNSET"
    /\ _consistency = "UNSET"
    /\ _lazy_connect = "UNSET"
    /\ _retry_connect = "UNSET"
    /\ _setup_kwargs = "UNSET"
    /\ postfork = 0
    /\ worker_process_init = 0
    /\ beat_init = 0
    /\ worker_shutting_down = 0
    /\ uwsgi_present \in BOOLEAN
    /\ celery_present \in BOOLEAN
    /\ \E d \in ImportTimeDriver :
        /\ drv_cluster = d[1]
        /\ drv_session = d[2]
        /\ cluster = d[1]
        /\ session = d[2]
        /\ live_clusters = {d[1]} \ {None}
        /\ live_sessions = {d[2]} \ {None}
    /\ next_id = 2
    /\ DEFAULT_KEYSPACE = "None"
    /\ setup_args = NoArgs
    /\ classes = C
    /\ op = [name |-> "import", hosts |-> "", keyspace |-> "", opts |-> "", ok |-> TRUE, arg |-> ""]
    /\ err = "ok"
    /\ calls = <<>>
    /\ raised = <<>>
    /\ synced = <<>>
    /\ before = [clusters |-> live_clusters, sessions |-> live_sessions]

\* a process in which the driver's shutdown() does not raise
Init == InitWith(OneModel) /\ shutdown_raises = FALSE

\* -------------------------------------------------------------- actions
\* the last handle number the driver may use
LastId == MaxHandles + 1

\* the operation may open up to n handles and register once more
Room(n) == next_id + n - 1 <= LastId

CanRegister ==
    /\ postfork < MaxBinds
    /\ worker_process_init < MaxBinds

Frame ==
    UNCHANGED <<cluster, session, uwsgi_present, celery_present,
                shutdown_raises, classes>>

\* db = CQLAlchemy(app) or db = CQLAlchemy()
Construct(a, ok) ==
    /\ ~constructed
    /\ Room(1) /\ CanRegister
    /\ LET S == __init__(Cur, a, ok) IN
        /\ Install(S)
        /\ held' = (S.err = "ok")
        /\ bound' = (a # NoConfigs /\ S.err = "ok")
    /\ constructed' = TRUE
    /\ pinned' = ""
    /\ op' = [name |-> "__init__", hosts |-> a.hosts, keyspace |-> a.keyspace,
              opts |-> a.consistency, ok |-> ok, arg |-> ""]
    /\ Frame

\* db.init_app(app)
InitApp(cfg, ok) ==
    /\ held
    /\ Room(1) /\ CanRegister
    /\ LET S == init_app(Cur, cfg, ok) IN
        /\ Install(S)
        /\ bound' = (bound \/ S.err = "ok")
    /\ pinned' = ""
    /\ op' = [name |-> "init_app", hosts |-> cfg.hosts, keyspace |-> cfg.keyspace,
              opts |-> cfg.consistency, ok |-> ok, arg |-> ""]
    /\ UNCHANGED <<held, constructed>>
    /\ Frame

\* db.setup_connection()
SetupConnection(ok) ==
    /\ held
    /\ Room(1)
    /\ Install(setup_connection(Cur, ok))
    /\ op' = [name |-> "setup_connection", hosts |-> "", keyspace |-> "", opts |-> "", ok |-> ok, arg |-> ""]
    /\ UNCHANGED <<held, constructed, bound, pinned>>
    /\ Frame

\* db.shutdown_connection()
ShutdownConnection ==
    /\ held
    /\ Install(shutdown_connection(Cur))
    /\ op' = [name |-> "shutdown_connection", hosts |-> "", keyspace |-> "", opts |-> "", ok |-> TRUE, arg |-> ""]
    /\ UNCHANGED <<held, constructed, bound, pinned>>
    /\ Frame

\* db.set_keyspace(keyspace_name); "" is the call without an argument
SetKeyspace(keyspace_name) ==
    /\ held
    /\ Install(set_keyspace(Cur, keyspace_name))
    /\ op' = [name |-> "set_keyspace", hosts |-> "", keyspace |-> "", opts |-> "", ok |-> TRUE, arg |-> keyspace_name]
    /\ pinned' = keyspace_name
    /\ UNCHANGED <<held, constructed, bound>>
    /\ Frame

\* db.sync_db()
SyncDb(failAt) ==
    /\ held
    /\ Install(sync_db(Cur, classes, failAt))
    /\ op' = [name |-> "sync_db", hosts |-> "", keyspace |-> "", opts |-> "",
              ok |-> (failAt > Len(get_subclasses(classes, Model))), arg |-> ""]
    /\ UNCHANGED <<held, constructed, bound, pinned>>
    /\ Frame

\* uWSGI forks a worker: the postfork receivers run
PostFork(failAt) ==
    /\ uwsgi_present
    /\ Room(postfork)
    /\ Install(RunInit(Cur, postfork, 1, failAt))
    /\ op' = [name |-> "postfork", hosts |-> "", keyspace |-> "", opts |-> "", ok |-> (failAt > postfork), arg |-> ""]
    /\ UNCHANGED <<held, constructed, bound, pinned>>
    /\ Frame

\* Celery starts a worker process: worker_process_init is sent
WorkerProcessInit(failAt) ==
    /\ celery_present
    /\ Room(worker_process_init)
    /\ Install(RunInit(Cur, worker_process_init, 1, failAt))
    /\ op' = [name |-> "worker_process_init", hosts |-> "", keyspace |-> "", opts |-> "",
              ok |-> (failAt > worker_process_init), arg |-> ""]
    /\ UNCHANGED <<held, constructed, bound, pinned>>
    /\ Frame

\* Celery beat starts: beat_init is sent
BeatInit(failAt) ==
    /\ celery_present
    /\ Room(beat_init)
    /\ Install(RunInit(Cur, beat_init, 1, failAt))
    /\ op' = [name |-> "beat_init", hosts |-> "", keyspace |-> "", opts |-> "", ok |-> (failAt > beat_init), arg |-> ""]
    /\ UNCHANGED <<held, constructed, bound, pinned>>
    /\ Frame

\* a Celery worker shuts down: worker_shutting_down is sent
WorkerShuttingDown ==
    /\ celery_present
    /\ Install(RunShutdown(Cur, worker_shutting_down, 1))
    /\ op' = [name |-> "worker_shutting_down", hosts |-> "", keyspace |-> "", opts |-> "", ok |-> TRUE, arg |-> ""]
    /\ UNCHANGED <<held, constructed, bound, pinned>>
    /\ Frame

Next ==
    \/ \E a \in Configs \cup {NoConfigs}, ok \in BOOLEAN : Construct(a, ok)
    \/ \E cfg \in Configs, ok \in BOOLEAN : InitApp(cfg, ok)
    \/ \E ok \in BOOLEAN : SetupConnection(ok)
    \/ ShutdownConnection
    \/ \E k \in KeyspaceNames : SetKeyspace(k)
    \/ \E f \in 1..(Len(get_subclasses(classes, Model)) + 1) : SyncDb(f)
    \/ \E f \in 1..(postfork + 1) : PostFork(f)
    \/ \E f \in 1..(worker_process_init + 1) : WorkerProcessInit(f)
    \/ \E f \in 1..(beat_init + 1) : BeatInit(f)
    \/ WorkerShuttingDown

Spec == Init /\ [][Next]_vars

\* a process in which the driver's shutdown() may raise
InitFaults == InitWith(OneModel) /\ shutdown_raises \in BOOLEAN

\* the manager on a driver whose connect, shutdown and sync_table may fail
SpecFaults == InitFaults /\ [][Next]_vars

\* ------------------------------------------- the class hierarchy grows
\* the program defines (imports) one more class: `class C(P1, P2, ...)`
\* with __abstract__ = abstract; every class descends from models.Model
DefineModel(abstract, parents) ==
    /\ Len(classes) < MaxClasses
    /\ classes' = Append(classes, [abstract |-> abstract, parents |-> parents])
    /\ Install(Cur)
    /\ op' = [name |-> "class", hosts |-> "", keyspace |-> "", opts |-> "", ok |-> TRUE, arg |-> ""]
    /\ UNCHANGED <<held, constructed, bound, pinned, cluster, session,
                   uwsgi_present, celery_present, shutdown_raises>>

\* the configuration of the scenario: {hosts: ["10.0.0.1"], keyspace: "ks1"}
ScenarioConfig ==
    [hosts |-> "[h1]", keyspace |-> "ks1", consistency |-> "MISSING",
     lazy_connect |-> "MISSING", retry_connect |-> "MISSING",
     setup_kwargs |-> "MISSING"]

\* A script without uWSGI and Celery that has not touched the driver before
\* the import and has defined no model yet.
InitModels ==
    /\ InitWith(<<>>)
    /\ ~uwsgi_present
    /\ ~celery_present
    /\ cluster = None
    /\ shutdown_raises = FALSE

NextModels ==
    \/ \E ok \in BOOLEAN : Construct(ScenarioConfig, ok)
    \/ \E abstract \in BOOLEAN, parents \in (SUBSET (0..Len(classes))) \ {{}} :
          DefineModel(abstract, parents)
    \/ \E f \in 1..(Len(get_subclasses(classes, Model)) + 1) : SyncDb(f)

\* the manager bound by a script that defines models and syncs them
SpecModels == InitModels /\ [][NextModels]_vars

\* ===================================================== the properties
Binds == {"__init__", "init_app"}

\* one live connection handle: one open client and its open session
OneLiveHandle ==
    /\ Cardinality(live_clusters) = 1
    /\ live_sessions = live_clusters

NoLiveHandle == live_clusters = {} /\ live_sessions = {}

\* the elements of a sequence
Range(q) == { q[i] : i \in 1..Len(q) }

\* C1: a bind with a non-empty host list and a non-empty keyspace, the
\* driver's connect succeeding, returns without error and leaves exactly
\* one live connection handle, whether or not one was live before.
C1_BindLeavesOneHandle ==
    (/\ op.name \in Binds
     /\ op.hosts = "[h1]"
     /\ op.keyspace \in {"ks1", "ks2"}
     /\ op.ok)
    => (err = "ok" /\ OneLiveHandle)

\* C2: a bind with an empty host list raises NoConfig, whatever the
\* keyspace (empty or not), and does not call the driver's connect.
C2_EmptyHostsRejected ==
    (/\ op.name \in Binds
     /\ op.hosts = "[]"
     /\ op.keyspace \in {"", "ks1", "ks2"})
    => (err = "NoConfig" /\ "connection.setup" \notin Range(calls))

\* C3: in every reachable state at most one client and at most one session
\* are live.
C3_AtMostOneHandle ==
    /\ Cardinality(live_clusters) <= 1
    /\ Cardinality(live_sessions) <= 1

\* C4: after shutdown_connection returns, no client and no session is
\* live, and it raised nothing.
C4_ShutdownClosesAll ==
    op.name = "shutdown_connection" => (err = "ok" /\ NoLiveHandle)

\* C5: shutdown_connection is idempotent: in the state a
\* shutdown_connection has left, a second call raises nothing and leaves
\* the open clients and sessions, the driver's current handle, the default
\* keyspace and the manager's fields as they are; and a call made when no
\* client and no session was open raises nothing and opens nothing.
C5_ShutdownIdempotent ==
    op.name = "shutdown_connection" =>
        LET S == shutdown_connection(Cur)
        IN  /\ err = "ok"
            /\ S.err = "ok"
            /\ [S EXCEPT !.calls = <<>>] = Cur
            /\ (before.clusters = {} /\ before.sessions = {}) => NoLiveHandle

\* C5 witness: a repeated shutdown_connection: it called shutdown() on the
\* client it holds, which an earlier call had already closed, and no
\* client was open when it started
C5_Witness ==
    /\ op.name = "shutdown_connection"
    /\ "cluster.shutdown" \in Range(calls)
    /\ before.clusters = {}
    /\ err = "ok"

\* C6: a sync_db that the driver does not fail passes every non-abstract
\* class below models.Model to sync_table.
C6_SyncDbSyncsEveryModel ==
    (op.name = "sync_db" /\ err = "ok")
    => \A c \in 1..Len(classes) : ~classes[c].abstract => c \in Range(synced)

\* C7: discovery returns only non-abstract classes and none of them twice,
\* and sync_db calls sync_table once for each class discovered.
C7_DiscoveryWithoutDuplicates ==
    LET found == get_subclasses(classes, Model)
    IN  /\ \A i \in 1..Len(found) : ~IsAbstract(classes, found[i])
        /\ \A i, j \in 1..Len(found) : found[i] = found[j] => i = j
        /\ (op.name = "sync_db" /\ err = "ok") =>
              /\ synced = found
              /\ \A i, j \in 1..Len(synced) : synced[i] = synced[j] => i = j

\* C8: on a manager that has been bound, set_keyspace() without a name
\* raises nothing and sets the default keyspace and the manager's keyspace
\* to the keyspace of the application's configuration.
C8_SetKeyspaceResets ==
    (/\ op.name = "set_keyspace"
     /\ Falsy(op.arg)
     /\ bound)
    => /\ err = "ok"
       /\ DEFAULT_KEYSPACE = _keyspace_
       /\ app # NoApp => _keyspace_ = app

\* C9: after set_keyspace(k) with a non-empty k, and until the next
\* set_keyspace or bind, the default keyspace and the manager's keyspace
\* are both k, and set_keyspace(k) itself raises nothing.
C9_KeyspaceSticks ==
    /\ pinned # "" => (DEFAULT_KEYSPACE = pinned /\ _keyspace_ = pinned)
    /\ (op.name = "set_keyspace" /\ ~Falsy(op.arg)) => (err = "ok" /\ pinned = op.arg)

\* C9 witness: a lifecycle event has reconnected after set_keyspace("ks2")
\* on a manager configured with ks1
C9_Witness ==
    /\ pinned = "ks2"
    /\ app = "ks1"
    /\ op.name \in {"postfork", "worker_process_init", "beat_init"}
    /\ "connection.setup" \in Range(calls)
    /\ err = "ok"

\* C10: after a successful bind with uWSGI and Celery present, a fork, a
\* worker start or a beat start that raises nothing has called the
\* driver's connect and ends with exactly one live handle, the one the
\* event opened, and a worker shutdown ends with no live client and no
\* live session.
C10_HooksReconnect ==
    (bound /\ uwsgi_present /\ celery_present) =>
        /\ (op.name \in {"postfork", "worker_process_init", "beat_init"} /\ err = "ok")
              => /\ "connection.setup" \in Range(calls)
                 /\ OneLiveHandle
                 /\ live_clusters = {drv_cluster}
        /\ op.name = "worker_shutting_down" => (err = "ok" /\ NoLiveHandle)

\* the number of times x occurs in the sequence q
Count(q, x) == Cardinality({ i \in 1..Len(q) : q[i] = x })

\* the last operation was a bind with a non-empty host list and a
\* non-empty keyspace, on a cluster the driver can reach
ValidBind ==
    /\ op.name \in Binds
    /\ op.hosts = "[h1]"
    /\ op.keyspace \in {"ks1", "ks2"}
    /\ op.ok

\* C11: whichever of uWSGI and Celery are installed, a bind with a valid
\* configuration raises nothing, registers one postfork receiver exactly
\* when uWSGI is installed and one receiver of each of worker_process_init,
\* beat_init and worker_shutting_down exactly when Celery is installed, and
\* calls the driver's connect exactly once, as its last driver call.
C11_BindRegistersAndConnects ==
    [][ValidBind' =>
        /\ err' = "ok"
        /\ postfork' = postfork + (IF uwsgi_present THEN 1 ELSE 0)
        /\ worker_process_init' = worker_process_init + (IF celery_present THEN 1 ELSE 0)
        /\ beat_init' = beat_init + (IF celery_present THEN 1 ELSE 0)
        /\ worker_shutting_down' = worker_shutting_down + (IF celery_present THEN 1 ELSE 0)
        /\ Count(calls', "connection.setup") = 1
        /\ calls'[Len(calls')] = "connection.setup"]_vars

\* C11 witness: a valid bind with Celery installed and uWSGI missing has
\* registered the three Celery receivers, no postfork receiver, and
\* connected
C11_Witness ==
    /\ ValidBind
    /\ celery_present /\ ~uwsgi_present
    /\ err = "ok"
    /\ postfork = 0
    /\ worker_process_init = 1 /\ beat_init = 1 /\ worker_shutting_down = 1
    /\ Count(calls, "connection.setup") = 1

\* C12: once the manager is bound, every fork, worker start and beat start
\* that raises nothing calls the driver's connect exactly once, and every
\* worker shutdown runs exactly one receiver of worker_shutting_down, also
\* when init_app ran more than once.
C12_OneCallPerEvent ==
    bound =>
        /\ (op.name \in {"postfork", "worker_process_init", "beat_init"} /\ err = "ok")
              => Count(calls, "connection.setup") = 1
        /\ op.name = "worker_shutting_down" => worker_shutting_down = 1

\* C13: an init_app that raises NoConfig registers no receiver, does not
\* call the driver's connect, and leaves every configuration field of the
\* manager as it was before the call.
C13_NoConfigLeavesNoTrace ==
    [][(op'.name = "init_app" /\ err' = "NoConfig") =>
        /\ UNCHANGED <<postfork, worker_process_init, beat_init, worker_shutting_down>>
        /\ Count(calls', "connection.setup") = 0
        /\ UNCHANGED <<_hosts_, _keyspace_, _consistency, _lazy_connect,
                       _retry_connect, _setup_kwargs>>]_vars

IncompleteBind ==
    /\ op.name \in Binds
    /\ \/ op.hosts = "MISSING"
       \/ op.hosts = "[h1]" /\ op.keyspace \in {"MISSING", ""}

\* C15: a bind whose configuration lacks the hosts entry, or has hosts and
\* a missing or empty keyspace, ends in an error without having called the
\* driver's connect.
C15_IncompleteConfigFailsFast ==
    IncompleteBind =>
        /\ err # "ok"
        /\ Count(calls, "connection.setup") = 0

\* C16: when the calls of the manager are serialized (every operation runs
\* to its end before the next one starts), no replaced handle stays open:
\* every live client is the driver's current client and every live session
\* is the driver's current session.
C16_SerializedCallsSafe ==
    /\ live_clusters \subseteq {drv_cluster}
    /\ live_sessions \subseteq {drv_session}

\* what the configuration of the last bind makes of the arguments of
\* connect: its hosts and keyspace, and its optional entries or, where
\* they are absent, consistency 1, both flags false and no extra options
BindArgs ==
    [hosts |-> op.hosts, keyspace |-> op.keyspace,
     consistency |-> IF op.opts = "MISSING" THEN "1" ELSE "2",
     lazy_connect |-> IF op.opts = "MISSING" THEN "False" ELSE "True",
     retry_connect |-> IF op.opts = "MISSING" THEN "False" ELSE "True",
     setup_kwargs |-> IF op.opts = "MISSING" THEN "{}" ELSE "{port}"]

\* what the manager remembers
HeldArgs ==
    [hosts |-> _hosts_, keyspace |-> _keyspace_,
     consistency |-> _consistency, lazy_connect |-> _lazy_connect,
     retry_connect |-> _retry_connect, setup_kwargs |-> _setup_kwargs]

Connected == Count(calls, "connection.setup") >= 1

\* C17: every connect call of the manager, from a bind, a direct
\* setup_connection or a lifecycle event, passes what the manager
\* remembers; a bind passes the hosts, keyspace and options of its
\* configuration, with consistency 1, both flags false and no extra
\* options for absent entries; only a bind changes the remembered hosts
\* and options; and after set_keyspace(k) every connect passes k as the
\* keyspace until the next bind or set_keyspace.
C17_ConnectPassesHeldConfig ==
    /\ [](/\ Connected => setup_args = HeldArgs
          /\ (Connected /\ op.name \in Binds) => setup_args = BindArgs
          /\ (Connected /\ pinned # "") => setup_args.keyspace = pinned)
    /\ [][op'.name \notin Binds =>
            UNCHANGED <<_hosts_, _consistency, _lazy_connect,
                        _retry_connect, _setup_kwargs>>]_vars

\* C17 witness: the manager was bound with keyspace ks1 and no optional
\* entry, set_keyspace("ks2") followed, and a fork has reconnected with
\* keyspace ks2 and the defaults
C17_Witness ==
    /\ op.name = "postfork"
    /\ app = "ks1" /\ pinned = "ks2"
    /\ err = "ok" /\ Connected
    /\ setup_args.keyspace = "ks2"
    /\ setup_args.consistency = "1"

\* C18: set_keyspace leaves the open clients and sessions, the driver's
\* current client and session, the manager's hosts, consistency, flags and
\* extra options and the registered receivers as they were, and makes no
\* driver call.
C18_SetKeyspaceFrame ==
    [][op'.name = "set_keyspace" =>
        /\ UNCHANGED <<live_clusters, live_sessions, drv_cluster, drv_session>>
        /\ UNCHANGED <<_hosts_, _consistency, _lazy_connect, _retry_connect,
                       _setup_kwargs>>
        /\ UNCHANGED <<postfork, worker_process_init, beat_init,
                       worker_shutting_down>>
        /\ calls' = <<>>]_vars

\* C18 witness: set_keyspace("ks2") on a manager bound with keyspace ks1
\* and one live handle has switched the default keyspace, with the handle
\* still live and no driver call made
C18_Witness ==
    /\ op.name = "set_keyspace" /\ op.arg = "ks2"
    /\ app = "ks1"
    /\ err = "ok"
    /\ DEFAULT_KEYSPACE = "ks2" /\ _keyspace_ = "ks2"
    /\ OneLiveHandle /\ live_clusters = {drv_cluster}
    /\ _hosts_ = "[h1]"
    /\ calls = <<>>

\* C19: when the driver's connect raises inside setup_connection, called
\* directly, by a bind or by a receiver, the operation ends with no live
\* client and no live session; and when it was a bind, the receivers it
\* registered before the connect stay registered.
C19_FailedConnectLeavesNoHandle ==
    raised = <<"connection.setup">> =>
        /\ NoLiveHandle
        /\ op.name \in Binds =>
              /\ uwsgi_present => postfork >= 1
              /\ celery_present =>
                    /\ worker_process_init >= 1
                    /\ beat_init >= 1
                    /\ worker_shutting_down >= 1

====
